---- MODULE Spec2Model ----
(***************************************************************************)
(* Model of stockpiler's per-device stockpile procedures                   *)
(* (stockpiler/tasks/stockpile/stockpile_cisco.py):                        *)
(*   stockpile_cisco_generic  - SSH only                                   *)
(*   stockpile_cisco_asa      - HTTPS first, SSH as fallback               *)
(* One behaviour is one call of one procedure for one host.  Every         *)
(* task.run(...) of the source is one action; what the device answers is   *)
(* drawn when the sub-task runs.  (Specification Spec.)                    *)
(*                                                                         *)
(* A second specification, SpecFleet, models the stockpile path of main(): *)
(* the platform dispatcher (stockpile_base.py) called once per host with   *)
(* main's keyword arguments, then ProcessStockpiles.task_completed         *)
(* (process_stockpiles.py) writing results.csv and committing, over        *)
(* successive runs into one output directory.  There each host's procedure *)
(* is one step, computed by the same definitions as in Spec.               *)
(*                                                                         *)
(* Text is a sequence of character codes, so that str.lower() and the      *)
(* substring test `in` are computed, not assumed.                          *)
(***************************************************************************)
EXTENDS Integers, Sequences, FiniteSets, TLC

VARIABLES
    proc,            \* which procedure runs: "generic" or "asa"
    host_http_mgmt,  \* task.host.get("http_management", False)
    proxies,         \* the proxies argument: "None" or "socks"
    pc,              \* position in the procedure
    stockpile_info,  \* the StockpileResults object being filled in
    resp,            \* what each command step got back from task.run
    attempted,       \* the sub-tasks started so far, in order
    probed,          \* the ports tcp_ping was run against
    setBy,           \* the command steps whose success branch ran
    file,            \* content of <stockpile_directory>/<host>.txt
    written,         \* number of completed write_file calls in this run
    result,          \* what the procedure handed back to the caller
    \* the fleet run (SpecFleet)
    platform,        \* inventory: each host's platform identifier
    run,             \* number of the current run of the tool
    phase,           \* "devices": the executor runs the hosts; "ended": the process is over
    exit,            \* how the process of this run ended: "none", "ok", "error"
    results,         \* the AggregatedResult of this run: host -> result
    invoked,         \* the procedure the dispatcher called for each host in this run
    trace,           \* per host: did the procedure's body start, did its write_file fail
    pending,         \* per host: the procedure call under way, with what the device answers
    now,             \* the clock of the running process (datetime.utcnow())
    task_start_time, \* ProcessStockpiles.task_start_time of the running process
    dir,             \* the output directory: does it exist, does it hold .git
    files,           \* <output directory>/<host>.txt for each host
    files_at_start,  \* those files as they were when this run began
    csv,             \* <output directory>/results.csv
    commits,         \* the repository's history: the run that made each commit
    head,            \* the tree of the latest commit
    handler,         \* task_completed in each run so far: calls, commit attempts, where it failed
    \* credentials (SpecCreds)
    args,            \* the command line: credential_prompt, credential_file, credential_from_inventory
    environ,         \* os.environ: STOCKPILER_USER, STOCKPILER_PW, STOCKPILER_ENABLE
    credential_path, \* the credential file on disk: is it a file, its owner, its mode
    cpc,             \* position in nornir_initialize / gather_credentials
    content,         \* what read_text() gave, once the credential file has been read
    gathered,        \* username, password, enable of gather_credentials, and how it ended
    defaults         \* norns.inventory.defaults after nornir_initialize

devVars == <<proc, host_http_mgmt, pc, stockpile_info, resp, attempted,
             probed, setBy, file, written, result>>

fleetVars == <<platform, run, phase, exit, results, invoked, trace, pending, dir, files,
               files_at_start, csv, commits, head, handler, now, task_start_time>>

credVars == <<args, environ, credential_path, cpc, content, gathered, defaults>>

vars == <<devVars, proxies, fleetVars, credVars>>

----------------------------------------------------------------------------
(* Text *)

\* Longest run of padding characters put in front of a sample device answer.
MaxPad == 1

\* "command authorization failed"
RejectionPhrase ==
    <<99, 111, 109, 109, 97, 110, 100, 32, 97, 117, 116, 104, 111, 114, 105,
      122, 97, 116, 105, 111, 110, 32, 102, 97, 105, 108, 101, 100>>

\* "Command Authorization Failed", as a device prints it
RejectionAsPrinted ==
    <<67, 111, 109, 109, 97, 110, 100, 32, 65, 117, 116, 104, 111, 114, 105,
      122, 97, 116, 105, 111, 110, 32, 70, 97, 105, 108, 101, 100>>

\* "hostname R1"
ConfigText == <<104, 111, 115, 116, 110, 97, 109, 101, 32, 82, 49>>

\* "command authorization": the phrase cut short, no rejection
NearMissText ==
    <<99, 111, 109, 109, 97, 110, 100, 32, 97, 117, 116, 104, 111, 114, 105,
      122, 97, 116, 105, 111, 110>>

\* "hostname R0", what an earlier run left in the host's file
OldConfigText == <<104, 111, 115, 116, 110, 97, 109, 101, 32, 82, 48>>

EmptyText == <<>>

\* n characters '%' (37)
Pad(n) == [i \in 1..n |-> 37]

\* The answers a device may give to a command.
Texts ==
    {EmptyText, ConfigText, NearMissText}
    \cup {Pad(n) \o p : n \in 0..MaxPad, p \in {RejectionPhrase, RejectionAsPrinted}}

\* Python value None for an optional text, and an absent file.
None == <<-1>>
NoFile == <<-2>>

\* str.lower() on ASCII
LowerChar(c) == IF c >= 65 /\ c <= 90 THEN c + 32 ELSE c
Lower(s) == [i \in 1..Len(s) |-> LowerChar(s[i])]

\* needle in hay
Contains(hay, needle) ==
    \E i \in 1..(Len(hay) - Len(needle) + 1) :
        SubSeq(hay, i, i + Len(needle) - 1) = needle

\* "command authorization failed" in text.lower()
Rejected(text) == Contains(Lower(text), RejectionPhrase)

----------------------------------------------------------------------------
(* What task.run gives back *)

\* kind "ok":     the sub-task returned, not failed (HTTP: response.ok)
\* kind "failed": the sub-task returned a result marked failed
\*                (HTTP: response.ok is False)
\* kind "raise":  the sub-task failed and task.run raised NornirSubTaskError
Responses ==
    [kind : {"ok", "failed"}, text : Texts] \cup {[kind |-> "raise", text |-> EmptyText]}

NoResp == [kind |-> "none", text |-> EmptyText]

Steps == {"http_read", "http_save", "ssh_read", "ssh_save"}

Returned(r) == r.kind \in {"ok", "failed"}

----------------------------------------------------------------------------
(* The outcome object and the conditions of the two procedures *)

\* StockpileResults(...): the dict holds every parameter of __init__ but
\* name; every flag false, no config, no successful backup.  ip and hostname
\* have no default: the caller gives them (0 stands for "not given yet").
\* last_backup_attempt's default, datetime.utcnow().isoformat(), is evaluated
\* once, when the def statement runs as the module is loaded.  Time is counted
\* in ticks of the process's clock from that moment on.
ModuleLoadTime == 0

NewOutcome(http_management) ==
    [ip                     |-> 0,
     hostname               |-> 0,
     http_management        |-> http_management,
     http_mgmt_port         |-> 443,
     http_port_check_ok     |-> FALSE,
     ssh_mgmt_port          |-> 22,
     ssh_port_check_ok      |-> FALSE,
     backup_successful      |-> FALSE,
     save_config_successful |-> FALSE,
     http_used              |-> FALSE,
     ssh_used               |-> FALSE,
     last_backup_attempt    |-> ModuleLoadTime,
     last_successful_backup |-> None,
     device_config          |-> None]

\* The outcome object each procedure creates for host h: the generic one
\* leaves http_management and http_mgmt_port at their defaults, the
\* dual-transport one takes them from the inventory (port 8443 by default).
StartOutcome(p, h, http_management) ==
    IF p = "asa"
    THEN [NewOutcome(http_management) EXCEPT !.ip = h, !.hostname = h, !.http_mgmt_port = 8443]
    ELSE [NewOutcome(FALSE) EXCEPT !.ip = h, !.hostname = h]

\* Variant: the early return of the generic procedure is missing.
GenericUnreachable_NoEarlyReturn(info) == FALSE

\* generic: if not stockpile_info["ssh_port_check_ok"]
GenericUnreachable(info) == ~info.ssh_port_check_ok

\* asa: if not http_port_check_ok and not ssh_port_check_ok
AsaUnreachable(info) == ~info.http_port_check_ok /\ ~info.ssh_port_check_ok

\* Variant: the HTTPS block is entered on http_management, not on the port check.
HttpAttempt_OnManagementFlag(info) == info.http_management

\* asa: if stockpile_info["http_port_check_ok"]
HttpAttempt(info) == info.http_port_check_ok

\* Variant: the SSH block tests the wrong flag.
SshFallback_TestsSaveFlag(info) == ~info.save_config_successful /\ info.ssh_port_check_ok

\* Variant: the SSH block runs whenever the SSH port is open.
SshFallback_Always(info) == info.ssh_port_check_ok

\* asa: if not backup_successful and ssh_port_check_ok
SshFallback(info) == ~info.backup_successful /\ info.ssh_port_check_ok

\* Variant: the file is written whether or not there is a backup.
WriteBackup_Always(info) == TRUE

\* both: if stockpile_info["backup_successful"], before write_file
WriteBackup(info) == info.backup_successful

\* generic: not backup_results[0].failed and phrase not in result.lower()
GenericReadOk(r) == r.kind = "ok" /\ ~Rejected(r.text)

\* generic: not save_config_results[0].failed and phrase not in result.lower()
GenericSaveOk(r) == r.kind = "ok" /\ ~Rejected(r.text)

\* asa, HTTPS: backup_results[0].response.ok and phrase not in response.text.lower()
HttpReadOk(r) == r.kind = "ok" /\ ~Rejected(r.text)

\* asa, HTTPS: wr_mem_results[0].response.ok and
\*             phrase not in backup_results[0].response.text.lower()
\* (the text tested is the read-config response's)
HttpSaveOk(save, read) == save.kind = "ok" /\ ~Rejected(read.text)

\* asa, SSH: not backup_results[0].failed and phrase not in result.lower()
SshReadOk(r) == r.kind = "ok" /\ ~Rejected(r.text)

\* asa, SSH: not wr_mem_results[0].failed and phrase not in result.lower()
SshSaveOk(r) == r.kind = "ok" /\ ~Rejected(r.text)

\* Variant: a backup is recorded without naming the transport that made it.
RecordBackup_NoUsedFlag(info, text, used) ==
    [info EXCEPT !.device_config = text,
                 !.backup_successful = TRUE]

\* device_config, backup_successful and <transport>_used set together
RecordBackup(info, text, used) ==
    [info EXCEPT !.device_config = text,
                 !.backup_successful = TRUE,
                 ![used] = TRUE]

RecordSave(info) == [info EXCEPT !.save_config_successful = TRUE]

\* content=stockpile_info["device_config"]
FileContent(info) == info.device_config

AfterGenericRead(info, r) ==
    IF GenericReadOk(r) THEN RecordBackup(info, r.text, "ssh_used") ELSE info

AfterGenericSave(info, r) ==
    IF GenericSaveOk(r) THEN RecordSave(info) ELSE info

AfterHttpRead(info, r) ==
    IF HttpReadOk(r) THEN RecordBackup(info, r.text, "http_used") ELSE info

AfterHttpSave(info, save, read) ==
    IF HttpSaveOk(save, read) THEN RecordSave(info) ELSE info

AfterSshRead(info, r) ==
    IF SshReadOk(r) THEN RecordBackup(info, r.text, "ssh_used") ELSE info

\* Variant: the SSH attempt overwrites the flag with its own result.
AfterSshSave_Overwrites(info, r) ==
    [info EXCEPT !.save_config_successful = SshSaveOk(r)]

AfterSshSave(info, r) ==
    IF SshSaveOk(r) THEN RecordSave(info) ELSE info

\* asa: http_port_check_ok after the first if/elif, given what tcp_ping
\* would report for the HTTP port
HttpPortCheck(info, px, httpUp) ==
    IF info.http_management /\ px # "None" THEN TRUE
    ELSE IF info.http_management THEN httpUp
    ELSE info.http_port_check_ok

\* Variant: the HTTP port is probed whenever HTTP management is on.
HttpProbeRuns_IgnoresProxy(info, px) == info.http_management

\* asa: tcp_ping runs against the HTTP port only in the elif branch
HttpProbeRuns(info, px) == info.http_management /\ px = "None"

----------------------------------------------------------------------------
(* Leaving the procedure *)

\* Variant: a result also counts as failed when the device-side save failed.
Return_FailedWithoutSave(info) ==
    /\ pc' = "returned"
    /\ result' = [kind |-> "outcome",
                  failed |-> ~(info.backup_successful /\ info.save_config_successful)]

\* return Result(host, result=stockpile_info, failed=not backup_successful)
Return(info) ==
    /\ pc' = "returned"
    /\ result' = [kind |-> "outcome", failed |-> ~info.backup_successful]

\* task.run raised NornirSubTaskError; neither procedure catches it, so the
\* caller gets a failed Result holding the exception instead of the outcome.
Raise ==
    /\ pc' = "raised"
    /\ result' = [kind |-> "exception", failed |-> TRUE]

----------------------------------------------------------------------------
(* The fleet: inventory, aggregate and output directory *)

\* Hosts of the (filtered) inventory, in inventory order, and runs of the tool.
NumHosts == 2
MaxRuns == 2

Hosts == 1..NumHosts

\* A host's entry in the aggregate before its task has run.
NoResult == [kind |-> "none", info |-> NewOutcome(FALSE)]

\* results.csv: absent, or a header (the fieldnames) and the rows written.
NoCsv == [exists |-> FALSE, header |-> {}, rows |-> <<>>]

\* An output directory that does not exist yet, and one without a repository.
NoDir == [exists |-> FALSE, git |-> FALSE]
PlainDir == [exists |-> TRUE, git |-> FALSE]

\* Variant: only the report is added to the commit.
Tree_ReportOnly(fs, report) == [files |-> [h \in DOMAIN fs |-> NoFile], csv |-> report]

\* The tree a commit records: every file git add --all finds.
Tree(fs, report) == [files |-> fs, csv |-> report]

\* task_completed in one run: was it called, did it reach the commit, which
\* local failure stopped it ("mkdir", "repo", "csv_open"), which exception of
\* its own code did ("AttributeError", "ValueError").
HandlerIdle == [calls |-> 0, commit_attempts |-> 0, fail |-> "none", crash |-> "none"]

\* What is remembered of a host's task: whether the procedure's body was
\* entered (its first probe ran), whether its write_file sub-task failed, and
\* what the clock showed when the procedure created its outcome object (-1:
\* none created).
NoTrace == [entered |-> FALSE, write_failed |-> FALSE, created |-> -1]

\* No procedure call is under way for the host.
NoPending ==
    [running |-> FALSE,
     info    |-> NewOutcome(FALSE),
     env     |-> [http_read |-> NoResp, http_save |-> NoResp, ssh_read |-> NoResp,
                  ssh_save |-> NoResp, write |-> "ok"]]

\* No fleet run is going on: the state of the fleet variables while one
\* procedure call is looked at on its own.
FleetIdle ==
    /\ platform = [h \in Hosts |-> "cisco_asa"]
    /\ run = 0
    /\ phase = "idle"
    /\ exit = "none"
    /\ results = [h \in Hosts |-> NoResult]
    /\ invoked = [h \in Hosts |-> "none"]
    /\ trace = [h \in Hosts |-> NoTrace]
    /\ pending = [h \in Hosts |-> NoPending]
    /\ dir = NoDir
    /\ files = [h \in Hosts |-> NoFile]
    /\ files_at_start = [h \in Hosts |-> NoFile]
    /\ csv = NoCsv
    /\ commits = <<>>
    /\ head = Tree([h \in Hosts |-> NoFile], NoCsv)
    /\ handler = <<>>
    /\ now = ModuleLoadTime
    /\ task_start_time = ModuleLoadTime

----------------------------------------------------------------------------
(* Credentials: values *)

\* Longest credential file payload, in entries.
MaxEntries == 4

\* os.environ values: "eu", "ep", "ee"
EnvUser == <<101, 117>>
EnvPw == <<101, 112>>
EnvEnable == <<101, 101>>

\* What the user types at the prompts: "tu", "tp"
TypedUser == <<116, 117>>
TypedPw == <<116, 112>>

\* Entries of a credential file: "U:fu", "P:fp", "E:fe", "P:f:p" (a colon
\* in the value) and "x" (no colon).
UserEntry == <<85, 58, 102, 117>>
PwEntry == <<80, 58, 102, 112>>
EnableEntry == <<69, 58, 102, 101>>
ColonInValue == <<80, 58, 102, 58, 112>>
NoColonEntry == <<120>>

Entries == {UserEntry, PwEntry, EnableEntry, ColonInValue, NoColonEntry}

\* The entries of a payload are separated by a newline (10) or a space (32),
\* and the last one is followed by a newline.
RECURSIVE Join(_, _)
Join(es, sep) ==
    IF es = <<>> THEN <<>>
    ELSE Head(es) \o (IF Len(es) = 1 THEN <<10>> ELSE <<sep>>) \o Join(Tail(es), sep)

Payloads ==
    {Join(es, sep) : es \in UNION {[1..n -> Entries] : n \in 0..MaxEntries}, sep \in {10, 32}}

\* What the credential file holds: the Base64 form of a payload, or text
\* that is not Base64.
Contents == [kind : {"b64"}, payload : Payloads] \cup {[kind |-> "garbage", payload |-> <<>>]}

NoContent == [kind |-> "unread", payload |-> <<>>]

\* st_mode of the credential file: 0o100600, 0o100640, 0o100604, 0o100666
Modes == {33152, 33184, 33156, 33206}

\* The credential file: missing, or a file with an owner and a mode.
CredentialPaths ==
    {[exists |-> FALSE, owned |-> TRUE, mode |-> 33152]}
    \cup [exists : {TRUE}, owned : BOOLEAN, mode : Modes]

\* The locals username, password, enable, and how the call ended:
\* "none" (not ended), "ok" (returned), or the exception raised.
Gathered(kind, u, p, e) == [kind |-> kind, username |-> u, password |-> p, enable |-> e]

NotGathered == Gathered("none", None, None, None)

NoDefaults == [username |-> None, password |-> None, secret |-> None]

\* Nothing about credentials is going on.
CredIdle ==
    /\ args = [credential_prompt |-> FALSE, credential_file |-> "absent",
               credential_from_inventory |-> FALSE]
    /\ environ = [STOCKPILER_USER |-> None, STOCKPILER_PW |-> None, STOCKPILER_ENABLE |-> None]
    /\ credential_path = [exists |-> FALSE, owned |-> TRUE, mode |-> 33152]
    /\ cpc = "idle"
    /\ content = NoContent
    /\ gathered = NotGathered
    /\ defaults = NoDefaults

----------------------------------------------------------------------------
(* One call of one procedure *)

Init ==
    /\ proc \in {"generic", "asa"}
    /\ host_http_mgmt \in BOOLEAN
    /\ proxies \in {"None", "socks"}
    /\ pc = IF proc = "generic" THEN "g_probe" ELSE "a_probe"
    /\ stockpile_info = StartOutcome(proc, 1, host_http_mgmt)
    /\ resp = [s \in Steps |-> NoResp]
    /\ attempted = <<>>
    /\ probed = {}
    /\ setBy = {}
    /\ file \in {NoFile, OldConfigText}
    /\ written = 0
    /\ result = [kind |-> "none", failed |-> FALSE]
    /\ FleetIdle
    /\ CredIdle

----------------------------------------------------------------------------
(* stockpile_cisco_generic *)

\* tcp_ping on the SSH port, and the early return when it is closed
GenericProbe ==
    /\ pc = "g_probe"
    /\ \E sshUp \in BOOLEAN :
        LET info == [stockpile_info EXCEPT !.ssh_port_check_ok = sshUp]
        IN /\ stockpile_info' = info
           /\ probed' = probed \cup {"ssh"}
           /\ IF GenericUnreachable(info)
              THEN Return(info)
              ELSE pc' = "g_read" /\ UNCHANGED result
    /\ UNCHANGED <<proc, host_http_mgmt, proxies, resp, attempted, setBy, file, written>>
    /\ UNCHANGED <<fleetVars, credVars>>

\* task.run(netmiko_send_command, backup_command)
GenericRead ==
    /\ pc = "g_read"
    /\ attempted' = Append(attempted, "ssh_read")
    /\ \E r \in Responses :
        /\ resp' = [resp EXCEPT !["ssh_read"] = r]
        /\ IF r.kind = "raise"
           THEN Raise /\ UNCHANGED <<stockpile_info, setBy>>
           ELSE /\ stockpile_info' = AfterGenericRead(stockpile_info, r)
                /\ setBy' = IF GenericReadOk(r) THEN setBy \cup {"ssh_read"} ELSE setBy
                /\ pc' = "g_save"
                /\ UNCHANGED result
    /\ UNCHANGED <<proc, host_http_mgmt, proxies, probed, file, written>>
    /\ UNCHANGED <<fleetVars, credVars>>

\* task.run(netmiko_save_config), then the branch on backup_successful
GenericSave ==
    /\ pc = "g_save"
    /\ attempted' = Append(attempted, "ssh_save")
    /\ \E r \in Responses :
        /\ resp' = [resp EXCEPT !["ssh_save"] = r]
        /\ IF r.kind = "raise"
           THEN Raise /\ UNCHANGED <<stockpile_info, setBy>>
           ELSE LET info == AfterGenericSave(stockpile_info, r)
                IN /\ stockpile_info' = info
                   /\ setBy' = IF GenericSaveOk(r) THEN setBy \cup {"ssh_save"} ELSE setBy
                   /\ IF WriteBackup(info)
                      THEN pc' = "g_write" /\ UNCHANGED result
                      ELSE Return(info)
    /\ UNCHANGED <<proc, host_http_mgmt, proxies, probed, file, written>>
    /\ UNCHANGED <<fleetVars, credVars>>

\* task.run(files.write_file, <host>.txt, device_config), then return
GenericWrite ==
    /\ pc = "g_write"
    /\ attempted' = Append(attempted, "write_file")
    /\ \/ /\ file' = FileContent(stockpile_info)
          /\ written' = written + 1
          /\ Return(stockpile_info)
       \/ /\ Raise
          /\ UNCHANGED <<file, written>>
    /\ UNCHANGED <<proc, host_http_mgmt, proxies, stockpile_info, resp, probed, setBy>>
    /\ UNCHANGED <<fleetVars, credVars>>

----------------------------------------------------------------------------
(* stockpile_cisco_asa *)

\* where the procedure goes once the HTTPS block is over (or was skipped)
AfterHttpBlock(info) ==
    IF SshFallback(info) THEN "a_ssh_read"
    ELSE IF WriteBackup(info) THEN "a_write"
    ELSE "returned"

\* The HTTP port check (assumed ok behind a proxy, probed otherwise, left
\* false when HTTP management is off), tcp_ping on the SSH port, and the
\* early return when neither port answers.
AsaProbe ==
    /\ pc = "a_probe"
    /\ \E httpUp \in BOOLEAN, sshUp \in BOOLEAN :
        LET info == [stockpile_info EXCEPT
                        !.http_port_check_ok = HttpPortCheck(stockpile_info, proxies, httpUp),
                        !.ssh_port_check_ok = sshUp]
        IN /\ stockpile_info' = info
           /\ probed' = probed \cup {"ssh"}
                        \cup (IF HttpProbeRuns(stockpile_info, proxies) THEN {"http"} ELSE {})
           /\ IF AsaUnreachable(info)
              THEN Return(info)
              ELSE /\ pc' = IF HttpAttempt(info) THEN "a_http_read" ELSE AfterHttpBlock(info)
                   /\ UNCHANGED result
    /\ UNCHANGED <<proc, host_http_mgmt, proxies, resp, attempted, setBy, file, written>>
    /\ UNCHANGED <<fleetVars, credVars>>

\* task.run(http_method, url + quote_plus(backup_command))
AsaHttpRead ==
    /\ pc = "a_http_read"
    /\ attempted' = Append(attempted, "http_read")
    /\ \E r \in Responses :
        /\ resp' = [resp EXCEPT !["http_read"] = r]
        /\ IF r.kind = "raise"
           THEN Raise /\ UNCHANGED <<stockpile_info, setBy>>
           ELSE /\ stockpile_info' = AfterHttpRead(stockpile_info, r)
                /\ setBy' = IF HttpReadOk(r) THEN setBy \cup {"http_read"} ELSE setBy
                /\ pc' = "a_http_save"
                /\ UNCHANGED result
    /\ UNCHANGED <<proc, host_http_mgmt, proxies, probed, file, written>>
    /\ UNCHANGED <<fleetVars, credVars>>

\* task.run(http_method, url + quote_plus("write mem")), then the branches
\* that follow the HTTPS block
AsaHttpSave ==
    /\ pc = "a_http_save"
    /\ attempted' = Append(attempted, "http_save")
    /\ \E r \in Responses :
        /\ resp' = [resp EXCEPT !["http_save"] = r]
        /\ IF r.kind = "raise"
           THEN Raise /\ UNCHANGED <<stockpile_info, setBy>>
           ELSE LET info == AfterHttpSave(stockpile_info, r, resp["http_read"])
                IN /\ stockpile_info' = info
                   /\ setBy' = IF HttpSaveOk(r, resp["http_read"])
                               THEN setBy \cup {"http_save"} ELSE setBy
                   /\ IF AfterHttpBlock(info) = "returned"
                      THEN Return(info)
                      ELSE pc' = AfterHttpBlock(info) /\ UNCHANGED result
    /\ UNCHANGED <<proc, host_http_mgmt, proxies, probed, file, written>>
    /\ UNCHANGED <<fleetVars, credVars>>

\* task.run(netmiko_send_command, backup_command)
AsaSshRead ==
    /\ pc = "a_ssh_read"
    /\ attempted' = Append(attempted, "ssh_read")
    /\ \E r \in Responses :
        /\ resp' = [resp EXCEPT !["ssh_read"] = r]
        /\ IF r.kind = "raise"
           THEN Raise /\ UNCHANGED <<stockpile_info, setBy>>
           ELSE /\ stockpile_info' = AfterSshRead(stockpile_info, r)
                /\ setBy' = IF SshReadOk(r) THEN setBy \cup {"ssh_read"} ELSE setBy
                /\ pc' = "a_ssh_save"
                /\ UNCHANGED result
    /\ UNCHANGED <<proc, host_http_mgmt, proxies, probed, file, written>>
    /\ UNCHANGED <<fleetVars, credVars>>

\* task.run(netmiko_save_config), then the branch on backup_successful
AsaSshSave ==
    /\ pc = "a_ssh_save"
    /\ attempted' = Append(attempted, "ssh_save")
    /\ \E r \in Responses :
        /\ resp' = [resp EXCEPT !["ssh_save"] = r]
        /\ IF r.kind = "raise"
           THEN Raise /\ UNCHANGED <<stockpile_info, setBy>>
           ELSE LET info == AfterSshSave(stockpile_info, r)
                IN /\ stockpile_info' = info
                   /\ setBy' = IF SshSaveOk(r) THEN setBy \cup {"ssh_save"} ELSE setBy
                   /\ IF WriteBackup(info)
                      THEN pc' = "a_write" /\ UNCHANGED result
                      ELSE Return(info)
    /\ UNCHANGED <<proc, host_http_mgmt, proxies, probed, file, written>>
    /\ UNCHANGED <<fleetVars, credVars>>

\* task.run(files.write_file, <host>.txt, device_config), then return
AsaWrite ==
    /\ pc = "a_write"
    /\ attempted' = Append(attempted, "write_file")
    /\ \/ /\ file' = FileContent(stockpile_info)
          /\ written' = written + 1
          /\ Return(stockpile_info)
       \/ /\ Raise
          /\ UNCHANGED <<file, written>>
    /\ UNCHANGED <<proc, host_http_mgmt, proxies, stockpile_info, resp, probed, setBy>>
    /\ UNCHANGED <<fleetVars, credVars>>

----------------------------------------------------------------------------

Next ==
    \/ GenericProbe
    \/ GenericRead
    \/ GenericSave
    \/ GenericWrite
    \/ AsaProbe
    \/ AsaHttpRead
    \/ AsaHttpSave
    \/ AsaSshRead
    \/ AsaSshSave
    \/ AsaWrite

Spec == Init /\ [][Next]_vars

Finished == pc \in {"returned", "raised"}

TypeOK ==
    /\ proc \in {"generic", "asa"}
    /\ pc \in {"g_probe", "g_read", "g_save", "g_write", "a_probe", "a_http_read",
               "a_http_save", "a_ssh_read", "a_ssh_save", "a_write", "returned", "raised"}
    /\ stockpile_info.device_config \in Texts \cup {None}
    /\ \A s \in Steps : resp[s] \in Responses \cup {NoResp}
    /\ setBy \subseteq Steps
    /\ file \in Texts \cup {NoFile, OldConfigText}
    /\ written \in 0..1
    /\ result.kind \in {"none", "outcome", "exception"}
    /\ (pc = "returned") = (result.kind = "outcome")
    /\ (pc = "raised") = (result.kind = "exception")

----------------------------------------------------------------------------
(* The procedures as functions of what the device answers.                 *)
(* info is the outcome object after the port checks; env gives the answer  *)
(* to each command step and whether write_file works ("ok" or "raise").    *)

Outcome(info) == [kind |-> "outcome", info |-> info]
Exception == [kind |-> "exception", info |-> NewOutcome(FALSE)]

\* the end of both procedures: write the file if there is a backup, return
WriteAndReturn(info, env) ==
    IF WriteBackup(info) /\ env.write = "raise" THEN Exception ELSE Outcome(info)

stockpile_cisco_generic(info, env) ==
    IF GenericUnreachable(info) THEN Outcome(info)
    ELSE IF env.ssh_read.kind = "raise" \/ env.ssh_save.kind = "raise" THEN Exception
    ELSE WriteAndReturn(
            AfterGenericSave(AfterGenericRead(info, env.ssh_read), env.ssh_save), env)

\* the SSH block of stockpile_cisco_asa and what follows it
AsaSshBlock(info, env) ==
    IF ~SshFallback(info) THEN WriteAndReturn(info, env)
    ELSE IF env.ssh_read.kind = "raise" \/ env.ssh_save.kind = "raise" THEN Exception
    ELSE WriteAndReturn(AfterSshSave(AfterSshRead(info, env.ssh_read), env.ssh_save), env)

stockpile_cisco_asa(info, env) ==
    IF AsaUnreachable(info) THEN Outcome(info)
    ELSE IF ~HttpAttempt(info) THEN AsaSshBlock(info, env)
    ELSE IF env.http_read.kind = "raise" \/ env.http_save.kind = "raise" THEN Exception
    ELSE AsaSshBlock(
            AfterHttpSave(AfterHttpRead(info, env.http_read), env.http_save, env.http_read),
            env)

Run(p, info, env) ==
    IF p = "generic" THEN stockpile_cisco_generic(info, env) ELSE stockpile_cisco_asa(info, env)

\* The outcome object as it was right after the port checks of this run.
InfoAfterProbe ==
    [StartOutcome(proc, 1, stockpile_info.http_management) EXCEPT
        !.http_port_check_ok = stockpile_info.http_port_check_ok,
        !.ssh_port_check_ok = stockpile_info.ssh_port_check_ok]

\* Whether step s can run at all in this call: the generic procedure has no
\* HTTPS steps, and the dual-transport procedure enters a transport's block
\* only when that port's check is ok.
CanRun(s) ==
    IF s \in {"http_read", "http_save"}
    THEN proc = "asa" /\ stockpile_info.http_port_check_ok
    ELSE stockpile_info.ssh_port_check_ok

\* The answers step s may have given: the one this run got, any answer if
\* this run never asked, none if the step cannot run.
AnswersOf(s) ==
    IF resp[s] # NoResp THEN {resp[s]}
    ELSE IF CanRun(s) THEN Responses
    ELSE {NoResp}

Env(hr, hs, sr, ss, w) ==
    [http_read |-> hr, http_save |-> hs, ssh_read |-> sr, ssh_save |-> ss, write |-> w]

\* The step-by-step procedure and the function agree on every returned outcome.
RunAgrees ==
    pc = "returned" =>
        \A hr \in AnswersOf("http_read"), hs \in AnswersOf("http_save"),
           sr \in AnswersOf("ssh_read"), ss \in AnswersOf("ssh_save") :
            Run(proc, InfoAfterProbe, Env(hr, hs, sr, ss, "ok")) = Outcome(stockpile_info)

----------------------------------------------------------------------------
(* The dispatcher (stockpile_base.py) and the call main makes *)

\* Some of netmiko's platform names.
KnownPlatforms == {"cisco_asa", "cisco_ios", "arista_eos"}

\* What an inventory may say: a netmiko name, a name netmiko does not have,
\* or no platform at all ("None").
InventoryPlatforms == KnownPlatforms \cup {"ios", "None"}

\* StockpileMap: every netmiko platform to the generic procedure, then
\* cisco_asa to the dual-transport one.
StockpileMap ==
    [pf \in KnownPlatforms |-> IF pf = "cisco_asa" THEN "asa" ELSE "generic"]

\* Variant: a platform without an entry falls back to the generic procedure.
Lookup_DefaultsToGeneric(pf) ==
    IF pf \in DOMAIN StockpileMap THEN StockpileMap[pf] ELSE "generic"

\* StockpileMap[task.host.platform]; a missing key is a KeyError
Lookup(pf) ==
    IF pf \in DOMAIN StockpileMap THEN StockpileMap[pf] ELSE "KeyError"

\* The keyword parameters each procedure declares (neither takes **kwargs).
Params(p) ==
    IF p = "asa"
    THEN {"stockpile_directory", "backup_command", "proxies"}
    ELSE {"stockpile_directory", "backup_command"}

\* run(task=stockpile_device_config, proxies=..., stockpile_directory=...):
\* the dispatcher hands both keyword arguments on to the procedure.
MainKwargs == {"proxies", "stockpile_directory"}

\* stockpile_task(task, **kwargs): a keyword the procedure does not declare
\* is a TypeError before its body starts.
Accepts(p, kwargs) == kwargs \subseteq Params(p)

\* What the devices of the fleet answer to the read-config command, on
\* whichever transport asks: one of two configurations, or the sub-task fails.
FleetTexts == {ConfigText, OldConfigText}

FleetAnswers ==
    [kind : {"ok"}, text : FleetTexts] \cup {[kind |-> "raise", text |-> EmptyText]}

\* The answer to the persist-configuration command.
SaveDone == [kind |-> "ok", text |-> EmptyText]

\* http_management in the inventory data of the fleet's hosts.
FleetHttpManagement == {TRUE}

\* <<HTTP port answers, SSH port answers>>
FleetPorts == {<<FALSE, FALSE>>, <<TRUE, TRUE>>}

\* Variant: write_file works whether or not the directory exists.
WriteAnswer_IgnoresDirectory(d, w) == w

\* write_file opens <stockpile_directory>/<host>.txt: it cannot work while
\* the directory does not exist, and may fail for other reasons.
WriteAnswer(d, w) == IF d.exists THEN w ELSE "raise"

----------------------------------------------------------------------------
(* One host's task: stockpile_device_config as nornir's Task.start runs it *)

\* The call: the dispatcher picks the procedure and calls it with main's
\* keyword arguments; the procedure creates its own outcome object, probes
\* the ports and talks to the device.  A KeyError or TypeError ends the task
\* at once with an exception value.
HostCall(h) ==
    /\ phase = "devices"
    /\ results[h] = NoResult
    /\ ~pending[h].running
    /\ LET p == Lookup(platform[h])
       IN IF p = "KeyError"
          THEN /\ results' = [results EXCEPT ![h] = Exception]
               /\ UNCHANGED <<invoked, trace, pending>>
          ELSE /\ invoked' = [invoked EXCEPT ![h] = p]
               /\ IF ~Accepts(p, MainKwargs)
                  THEN /\ results' = [results EXCEPT ![h] = Exception]
                       /\ UNCHANGED <<trace, pending>>
                  ELSE /\ \E hm \in FleetHttpManagement, up \in FleetPorts,
                             a \in FleetAnswers, w \in {"ok", "raise"} :
                            LET start == StartOutcome(p, h, hm)
                                info == [start EXCEPT
                                            !.http_port_check_ok =
                                                IF p = "asa"
                                                THEN HttpPortCheck(start, proxies, up[1])
                                                ELSE start.http_port_check_ok,
                                            !.ssh_port_check_ok = up[2]]
                            IN pending' = [pending EXCEPT ![h] =
                                    [running |-> TRUE,
                                     info    |-> info,
                                     env     |-> Env(a, SaveDone, a, SaveDone, w)]]
                       /\ trace' = [trace EXCEPT ![h].entered = TRUE, ![h].created = now + 1]
                       /\ UNCHANGED results
    /\ now' = now + 1
    /\ UNCHANGED <<platform, run, phase, exit, dir, files, files_at_start, csv, commits,
                   head, handler, task_start_time>>
    /\ UNCHANGED <<devVars, proxies, credVars>>

\* Variant: every host's procedure writes to the same file.
FileOf_Shared(h) == 1

\* <stockpile_directory>/<task.host>.txt: the file of host h
FileOf(h) == h

\* The end of the call: write_file if there is a backup, then the result
\* goes into the aggregate under the host's name.
HostFinish(h) ==
    /\ phase = "devices"
    /\ pending[h].running
    /\ LET env == [pending[h].env EXCEPT !.write = WriteAnswer(dir, @)]
           r == Run(invoked[h], pending[h].info, env)
           unwritten == Run(invoked[h], pending[h].info, [env EXCEPT !.write = "ok"])
       IN /\ results' = [results EXCEPT ![h] = r]
          /\ trace' = [trace EXCEPT ![h].write_failed =
                            r.kind = "exception" /\ unwritten.kind = "outcome"]
          /\ files' = IF r.kind = "outcome" /\ WriteBackup(r.info)
                      THEN [files EXCEPT ![FileOf(h)] = FileContent(r.info)]
                      ELSE files
    /\ pending' = [pending EXCEPT ![h] = NoPending]
    /\ UNCHANGED <<platform, run, phase, exit, invoked, dir, files_at_start, csv, commits,
                   head, handler, now, task_start_time>>
    /\ UNCHANGED <<devVars, proxies, credVars>>

----------------------------------------------------------------------------
(* ProcessStockpiles.task_completed *)

\* fieldnames: the keys of the first result in the aggregate, but device_config
Fieldnames(info) == DOMAIN info \ {"device_config"}

\* Variant: the row keeps every key of the outcome.
ReportRow_KeepsConfig(info) == info

\* the row given to writerow: the outcome without device_config
ReportRow(info) == [k \in DOMAIN info \ {"device_config"} |-> info[k]]

\* isinstance(result[host][0].result, dict)
IsDict(r) == r.kind = "outcome"

\* csv.DictWriter.writerow raises ValueError for a key outside fieldnames.
RowAccepted(header, row) == DOMAIN row \subseteq header

\* The rows of the hosts from..NumHosts, in the aggregate's order: hosts
\* whose result is not a dict are skipped.
RECURSIVE ReportRows(_, _)
ReportRows(agg, from) ==
    IF from > NumHosts THEN <<>>
    ELSE IF IsDict(agg[from]) THEN <<ReportRow(agg[from].info)>> \o ReportRows(agg, from + 1)
    ELSE ReportRows(agg, from + 1)

\* The rows writerow took before the first one it refused.
RECURSIVE WrittenRows(_, _)
WrittenRows(header, rows) ==
    IF rows = <<>> \/ ~RowAccepted(header, Head(rows)) THEN <<>>
    ELSE <<Head(rows)>> \o WrittenRows(header, Tail(rows))

\* if not stockpile_directory.is_dir(): mkdir
MakesDir(d) == ~d.exists

\* Variant: a repository is initialised on every call.
InitsRepo_Always(d) == TRUE

\* if not (stockpile_directory / ".git").is_dir(): Repo.init, else Repo(path)
InitsRepo(d) == ~d.git

\* The history of the repository object git_initialize returns: none for a
\* repository just initialised, the existing one for a repository opened.
RepoHistory(history, d) == IF InitsRepo(d) THEN <<>> ELSE history

\* git_initialize: mkdir when the directory is missing, Repo.init when it
\* has no .git, Repo(path) otherwise.  f is the local failure, if any.
GitInitialize(d, f) ==
    IF f = "mkdir" THEN d
    ELSE IF f = "repo" THEN [d EXCEPT !.exists = TRUE]
    ELSE [exists |-> TRUE, git |-> TRUE]

\* Variant: the handler goes on after a local failure.
ReachesReport_DespiteFailure(f) == TRUE

\* The statements after line 67 run only if git_initialize and the opening
\* of results.csv raised nothing.
ReachesReport(f) == f = "none"

\* The whole handler.  It is called once all hosts have a result.  A local
\* failure f stops it where it happens; so does an exception of its own code:
\* AttributeError when the first result of the aggregate is not a dict
\* (.result.keys() on a string), ValueError when writerow refuses a row.
TaskCompleted ==
    /\ phase = "devices"
    /\ \A h \in Hosts : results[h] # NoResult
    /\ \A h \in Hosts : ~pending[h].running
    /\ \E f \in {"none", "mkdir", "repo", "csv_open"} :
        /\ f = "mkdir" => MakesDir(dir)
        /\ LET first == results[1]
               opened == ReachesReport(f)
               header == IF IsDict(first) THEN Fieldnames(first.info) ELSE {}
               rows == ReportRows(results, 1)
               taken == WrittenRows(header, rows)
               crash == IF ~opened THEN "none"
                        ELSE IF ~IsDict(first) THEN "AttributeError"
                        ELSE IF taken # rows THEN "ValueError"
                        ELSE "none"
               report == IF ~opened THEN csv
                         ELSE IF ~IsDict(first) THEN [exists |-> TRUE, header |-> {}, rows |-> <<>>]
                         ELSE [exists |-> TRUE, header |-> header, rows |-> taken]
               done == opened /\ crash = "none"
               history == IF f \in {"mkdir", "repo"} THEN commits
                          ELSE RepoHistory(commits, dir)
           IN /\ dir' = GitInitialize(dir, f)
              /\ csv' = report
              /\ commits' = IF done THEN Append(history, run) ELSE history
              /\ head' = IF done THEN Tree(files, report) ELSE head
              /\ handler' = [handler EXCEPT ![run] =
                                [calls           |-> @.calls + 1,
                                 commit_attempts |-> @.commit_attempts + (IF done THEN 1 ELSE 0),
                                 fail            |-> f,
                                 crash           |-> crash]]
              /\ exit' = IF done THEN "ok" ELSE "error"
    /\ phase' = "ended"
    /\ UNCHANGED <<platform, run, results, invoked, trace, pending, files, files_at_start,
                   now, task_start_time>>
    /\ UNCHANGED <<devVars, proxies, credVars>>

----------------------------------------------------------------------------
(* Runs of the tool into one output directory *)

\* ProcessStockpiles() is built in main, after the imports, the argument
\* parsing and the inventory set-up: the clock has moved on since the modules
\* were loaded.
ProcessorCreated == ModuleLoadTime + 1

\* The tool is started again: same inventory, same directory.  The new
\* process loads the modules anew and then builds its ProcessStockpiles().
StartRun ==
    /\ phase = "ended"
    /\ run < MaxRuns
    /\ run' = run + 1
    /\ phase' = "devices"
    /\ exit' = "none"
    /\ results' = [h \in Hosts |-> NoResult]
    /\ invoked' = [h \in Hosts |-> "none"]
    /\ trace' = [h \in Hosts |-> NoTrace]
    /\ pending' = [h \in Hosts |-> NoPending]
    /\ files_at_start' = files
    /\ handler' = Append(handler, HandlerIdle)
    /\ now' = ProcessorCreated
    /\ task_start_time' = ProcessorCreated
    /\ UNCHANGED <<platform, dir, files, csv, commits, head>>
    /\ UNCHANGED <<devVars, proxies, credVars>>

\* No single procedure call is being followed step by step.
DeviceIdle ==
    /\ proc = "asa"
    /\ host_http_mgmt = FALSE
    /\ pc = "idle"
    /\ stockpile_info = NewOutcome(FALSE)
    /\ resp = [s \in Steps |-> NoResp]
    /\ attempted = <<>>
    /\ probed = {}
    /\ setBy = {}
    /\ file = NoFile
    /\ written = 0
    /\ result = [kind |-> "none", failed |-> FALSE]

FleetInit ==
    /\ DeviceIdle
    /\ CredIdle
    /\ proxies \in {"None", "socks"}
    /\ platform \in [Hosts -> InventoryPlatforms]
    /\ run = 1
    /\ phase = "devices"
    /\ exit = "none"
    /\ results = [h \in Hosts |-> NoResult]
    /\ invoked = [h \in Hosts |-> "none"]
    /\ trace = [h \in Hosts |-> NoTrace]
    /\ pending = [h \in Hosts |-> NoPending]
    /\ dir \in {NoDir, PlainDir}
    /\ files = [h \in Hosts |-> NoFile]
    /\ files_at_start = [h \in Hosts |-> NoFile]
    /\ csv = NoCsv
    /\ commits = <<>>
    /\ head = Tree([h \in Hosts |-> NoFile], NoCsv)
    /\ handler = <<HandlerIdle>>
    /\ now = ProcessorCreated
    /\ task_start_time = ProcessorCreated

FleetNext ==
    \/ \E h \in Hosts : HostCall(h)
    \/ \E h \in Hosts : HostFinish(h)
    \/ TaskCompleted
    \/ StartRun

SpecFleet == FleetInit /\ [][FleetNext]_vars

FleetTypeOK ==
    /\ run \in 1..MaxRuns
    /\ phase \in {"devices", "ended"}
    /\ exit \in {"none", "ok", "error"}
    /\ \A h \in Hosts :
        /\ results[h].kind \in {"none", "outcome", "exception"}
        /\ invoked[h] \in {"none", "generic", "asa"}
        /\ files[h] \in FleetTexts \cup {NoFile}
    /\ Len(handler) = run
    /\ Len(commits) <= run
    /\ now \in ProcessorCreated..(ProcessorCreated + NumHosts)
    /\ task_start_time = ProcessorCreated

----------------------------------------------------------------------------
(* Credentials: arg_parsing, nornir_initialize and gather_credentials *)

\* --credential_file has nargs="?" and a default: the option left out gives
\* the default path, the option without a value gives None, the option with
\* a value gives that path.
CredentialFileArg(opt) ==
    IF opt = "absent" THEN "/opt/stockpiler/credentials.b64"
    ELSE IF opt = "bare" THEN "None"
    ELSE "given path"

\* str.split(): the runs of non-whitespace characters
IsSpace(c) == c \in {9, 10, 13, 32}

RECURSIVE SplitFrom(_, _, _)
SplitFrom(text, i, cur) ==
    IF i > Len(text) THEN (IF cur = <<>> THEN <<>> ELSE <<cur>>)
    ELSE IF IsSpace(text[i])
         THEN (IF cur = <<>> THEN <<>> ELSE <<cur>>) \o SplitFrom(text, i + 1, <<>>)
         ELSE SplitFrom(text, i + 1, Append(cur, text[i]))

Split(text) == SplitFrom(text, 1, <<>>)

\* entry.split(":", maxsplit=1): one part if there is no colon, else two
HasColon(entry) == \E i \in 1..Len(entry) : entry[i] = 58

FirstColon(entry) ==
    CHOOSE i \in 1..Len(entry) :
        entry[i] = 58 /\ \A j \in 1..(i - 1) : entry[j] # 58

\* entry.split(":", maxsplit=1)[1]
AfterColon(entry) == SubSeq(entry, FirstColon(entry) + 1, Len(entry))

\* Variant: only the group digit of the mode is tested.
BadPermissions_GroupOnly(mode) == (mode \div 8) % 8 > 0

\* credential_permissions = oct(st_mode)[-3:];
\* int(credential_permissions[1]) > 0 or int(credential_permissions[2]) > 0
BadPermissions(mode) == (mode \div 8) % 8 > 0 \/ mode % 8 > 0

\* The if/elif/else over len(creds): three entries, two entries (enable is
\* the password), anything else is the OSError of line 276.  [1] on an
\* entry without a colon is an IndexError.
ParseCreds(creds) ==
    IF Len(creds) = 3
    THEN IF \A k \in 1..3 : HasColon(creds[k])
         THEN Gathered("ok", AfterColon(creds[1]), AfterColon(creds[2]), AfterColon(creds[3]))
         ELSE Gathered("IndexError", None, None, None)
    ELSE IF Len(creds) = 2
    THEN IF \A k \in 1..2 : HasColon(creds[k])
         THEN Gathered("ok", AfterColon(creds[1]), AfterColon(creds[2]), AfterColon(creds[2]))
         ELSE Gathered("IndexError", None, None, None)
    ELSE Gathered("OSError", None, None, None)

\* base64.b64decode(creds_b64).decode().split(), then the parsing; text that
\* is not Base64 makes b64decode raise binascii.Error, a ValueError.
ReadCreds(c) ==
    IF c.kind = "garbage" THEN Gathered("ValueError", None, None, None)
    ELSE ParseCreds(Split(c.payload))

\* extras={"secret": enable or password}
Secret(enable, password) == IF enable \in {None, EmptyText} THEN password ELSE enable

\* nornir_initialize, line 209: credentials are gathered unless the
\* inventory's are to be used.
NornirInitialize ==
    /\ cpc = "init"
    /\ IF args.credential_from_inventory
       THEN /\ cpc' = "done"
            /\ gathered' = Gathered("skipped", None, None, None)
       ELSE /\ cpc' = "gather"
            /\ UNCHANGED gathered
    /\ UNCHANGED <<args, environ, credential_path, content, defaults>>
    /\ UNCHANGED <<devVars, proxies, fleetVars>>

\* gather_credentials, lines 240-244: the environment, and the OSError when
\* there is no source of credentials at all.
GatherEnviron ==
    /\ cpc = "gather"
    /\ LET username == environ.STOCKPILER_USER
           password == environ.STOCKPILER_PW
           enable == environ.STOCKPILER_ENABLE
       IN IF /\ username = None
             /\ password = None
             /\ ~args.credential_prompt
             /\ CredentialFileArg(args.credential_file) = "None"
          THEN /\ gathered' = Gathered("OSError", None, None, None)
               /\ cpc' = "done"
          ELSE /\ gathered' = Gathered("none", username, password, enable)
               /\ cpc' = IF args.credential_prompt THEN "prompt"
                         ELSE IF CredentialFileArg(args.credential_file) # "None" THEN "check"
                         ELSE "return"
    /\ UNCHANGED <<args, environ, credential_path, content, defaults>>
    /\ UNCHANGED <<devVars, proxies, fleetVars>>

\* lines 245-248: input() and getpass(); enable is the password
GatherPrompt ==
    /\ cpc = "prompt"
    /\ \E u \in {TypedUser, EmptyText}, p \in {TypedPw} :
        gathered' = Gathered("none", u, p, p)
    /\ cpc' = "return"
    /\ UNCHANGED <<args, environ, credential_path, content, defaults>>
    /\ UNCHANGED <<devVars, proxies, fleetVars>>

\* lines 250-261: is_file(), owner(), permissions
GatherCheckFile ==
    /\ cpc = "check"
    /\ IF \/ ~credential_path.exists
          \/ ~credential_path.owned
          \/ BadPermissions(credential_path.mode)
       THEN /\ gathered' = Gathered("OSError", None, None, None)
            /\ cpc' = "done"
       ELSE /\ cpc' = "read"
            /\ UNCHANGED gathered
    /\ UNCHANGED <<args, environ, credential_path, content, defaults>>
    /\ UNCHANGED <<devVars, proxies, fleetVars>>

\* lines 263-278: read_text(), decode, split and parse
GatherReadFile ==
    /\ cpc = "read"
    /\ \E c \in Contents :
        /\ content' = c
        /\ LET r == ReadCreds(c)
           IN /\ gathered' = IF r.kind = "ok" THEN [r EXCEPT !.kind = "none"] ELSE r
              /\ cpc' = IF r.kind = "ok" THEN "return" ELSE "done"
    /\ UNCHANGED <<args, environ, credential_path, defaults>>
    /\ UNCHANGED <<devVars, proxies, fleetVars>>

\* line 280, then nornir_initialize lines 216-222: the tuple goes into the
\* inventory defaults.
GatherReturn ==
    /\ cpc = "return"
    /\ gathered' = [gathered EXCEPT !.kind = "ok"]
    /\ defaults' = [username |-> gathered.username,
                    password |-> gathered.password,
                    secret   |-> Secret(gathered.enable, gathered.password)]
    /\ cpc' = "done"
    /\ UNCHANGED <<args, environ, credential_path, content>>
    /\ UNCHANGED <<devVars, proxies, fleetVars>>

CredInit ==
    /\ DeviceIdle
    /\ proxies = "None"
    /\ FleetIdle
    /\ args \in [credential_prompt : BOOLEAN,
                 credential_file : {"absent", "bare", "given"},
                 credential_from_inventory : BOOLEAN]
    /\ environ \in [STOCKPILER_USER : {None, EnvUser}, STOCKPILER_PW : {None, EnvPw},
                    STOCKPILER_ENABLE : {None, EnvEnable}]
    /\ credential_path \in CredentialPaths
    /\ cpc = "init"
    /\ content = NoContent
    /\ gathered = NotGathered
    /\ defaults = NoDefaults

CredNext ==
    \/ NornirInitialize
    \/ GatherEnviron
    \/ GatherPrompt
    \/ GatherCheckFile
    \/ GatherReadFile
    \/ GatherReturn

SpecCreds == CredInit /\ [][CredNext]_vars

CredTypeOK ==
    /\ cpc \in {"init", "gather", "prompt", "check", "read", "return", "done"}
    /\ gathered.kind \in {"none", "ok", "skipped", "OSError", "IndexError", "ValueError"}
    /\ content \in Contents \cup {NoContent}
    /\ (cpc = "done") = (gathered.kind # "none")

----------------------------------------------------------------------------
(* Vocabulary of the properties *)

\* A device answer that is a usable configuration: the transport reported
\* success and the text is not a rejection.
ValidConfig(r) == r.kind = "ok" /\ ~Contains(Lower(r.text), RejectionPhrase)

Tried(step) == \E i \in 1..Len(attempted) : attempted[i] = step

ProbesDone == "ssh" \in probed

\* No usable management port: the generic procedure's SSH probe failed, the
\* dual-transport procedure's HTTP check is false and its SSH probe failed.
NoPortReachable ==
    /\ ProbesDone
    /\ ~stockpile_info.ssh_port_check_ok
    /\ proc = "asa" => ~stockpile_info.http_port_check_ok

\* The text retrieved by the transport whose used flag is set.
RetrievedText ==
    IF stockpile_info.http_used THEN resp["http_read"].text
    ELSE IF stockpile_info.ssh_used THEN resp["ssh_read"].text
    ELSE None

NotWrittenThisRun == written = 0 /\ file \in {NoFile, OldConfigText}

\* The fleet run: the process of the current run is over.
RunEnded == phase = "ended"

\* task_completed in the current run
ThisRun == handler[run]

\* The latest commit of the repository was made by the current run.
CommittedThisRun == commits # <<>> /\ commits[Len(commits)] = run

\* The host's result is a structured outcome with backup_successful true.
BackedUp(h) == results[h].kind = "outcome" /\ results[h].info.backup_successful

\* The rows of results.csv that are about host h.
RowsOf(h) == {i \in 1..Len(csv.rows) : csv.rows[i].ip = h}

\* The key set of a StockpileResults object.
OutcomeKeys == DOMAIN NewOutcome(FALSE)

\* Hosts whose platform has no entry in the dispatcher's map.
UnknownPlatform(h) == platform[h] \notin KnownPlatforms

\* gather_credentials was called and has ended, by return or by exception.
CallEnded == cpc = "done" /\ gathered.kind # "skipped"

\* The credential_file argument of the call.
CredentialFile == CredentialFileArg(args.credential_file)

\* The credential file's contents have been read.
FileRead == content # NoContent

\* The credential file is missing, is someone else's, or has a group or
\* other permission bit set (the low six bits of the mode).
BadFile ==
    \/ ~credential_path.exists
    \/ ~credential_path.owned
    \/ credential_path.mode % 64 # 0

\* The text after the first ':' of an entry; None if it has no ':'.
ValueOf(entry) == IF HasColon(entry) THEN AfterColon(entry) ELSE None

\* How many times a sub-task was started in this call.
TimesTried(step) == Cardinality({i \in 1..Len(attempted) : attempted[i] = step})

\* The persist-configuration steps.
SaveSteps == {"http_save", "ssh_save"}

\* The hosts whose procedure created an outcome object in this run and
\* returned it.
ReturnedOutcome(h) == trace[h].entered /\ results[h].kind = "outcome"

----------------------------------------------------------------------------
(* Properties *)

\* C1: when no usable management port is reachable, the procedure has
\* returned an outcome with backup_successful, http_used and ssh_used all
\* false, no read-config or persist-configuration command was attempted on
\* any transport, and no file was written for the device.
C1_UnreachableReturnsFailed ==
    NoPortReachable =>
        /\ pc = "returned"
        /\ result = [kind |-> "outcome", failed |-> TRUE]
        /\ ~stockpile_info.backup_successful
        /\ ~stockpile_info.http_used
        /\ ~stockpile_info.ssh_used
        /\ attempted = <<>>
        /\ \A s \in Steps : resp[s] = NoResp
        /\ NotWrittenThisRun

\* The dual-transport procedure probed both ports, both were closed, and it
\* returned.
C1_Witness ==
    /\ proc = "asa"
    /\ probed = {"http", "ssh"}
    /\ NoPortReachable
    /\ pc = "returned"

\* C2: http_used and ssh_used are never both true, in any state of either
\* procedure and so in every returned outcome.
C2_TransportsExclusive ==
    ~(stockpile_info.http_used /\ stockpile_info.ssh_used)

\* The dual-transport procedure tried HTTPS, fell back to SSH and returned
\* an outcome that used SSH.
C2_Witness ==
    /\ pc = "returned"
    /\ Tried("http_read")
    /\ stockpile_info.ssh_used
    /\ ~stockpile_info.http_used

\* C3: in the dual-transport procedure, once the HTTP check is ok and the
\* HTTP read-config has returned a valid config, the SSH read-config and the
\* SSH persist-configuration are never attempted, and the outcome has
\* http_used true and ssh_used false.
C3_HttpPreferred ==
    (proc = "asa" /\ stockpile_info.http_port_check_ok /\ ValidConfig(resp["http_read"])) =>
        /\ ~Tried("ssh_read")
        /\ ~Tried("ssh_save")
        /\ resp["ssh_read"] = NoResp
        /\ resp["ssh_save"] = NoResp
        /\ stockpile_info.http_used
        /\ ~stockpile_info.ssh_used

\* HTTPS gave a valid config while the SSH port was open too, and the
\* procedure returned.
C3_Witness ==
    /\ proc = "asa"
    /\ pc = "returned"
    /\ ValidConfig(resp["http_read"])
    /\ stockpile_info.ssh_port_check_ok
    /\ stockpile_info.http_used

\* C4: in the dual-transport procedure, whenever the HTTP read-config was
\* attempted without yielding a usable config and the SSH probe succeeded,
\* the SSH read-config is attempted before the procedure ends, and if it
\* returns valid text the outcome has backup_successful and ssh_used true and
\* http_used false.
C4_FallbackAlwaysTried ==
    (/\ Finished
     /\ proc = "asa"
     /\ Tried("http_read")
     /\ ~ValidConfig(resp["http_read"])
     /\ stockpile_info.ssh_port_check_ok) =>
        /\ Tried("ssh_read")
        /\ ValidConfig(resp["ssh_read"]) =>
            /\ pc = "returned"
            /\ stockpile_info.backup_successful
            /\ stockpile_info.ssh_used
            /\ ~stockpile_info.http_used

\* C5: in the dual-transport procedure, when the HTTP check is false (port
\* closed or HTTP management disabled), the SSH port is open and the SSH
\* read-config returned a valid config, the outcome has http_used false,
\* ssh_used true, backup_successful true, and no HTTP request was made.
C5_SshOnlyWhenHttpDown ==
    (/\ proc = "asa"
     /\ ProbesDone
     /\ ~stockpile_info.http_port_check_ok
     /\ stockpile_info.ssh_port_check_ok
     /\ ValidConfig(resp["ssh_read"])) =>
        /\ ~stockpile_info.http_used
        /\ stockpile_info.ssh_used
        /\ stockpile_info.backup_successful
        /\ ~Tried("http_read")
        /\ ~Tried("http_save")
        /\ pc = "returned" => result = [kind |-> "outcome", failed |-> FALSE]

\* HTTP management is enabled but the HTTP port is closed; SSH gave a valid
\* config and the procedure returned.
C5_Witness ==
    /\ proc = "asa"
    /\ pc = "returned"
    /\ "http" \in probed
    /\ ~stockpile_info.http_port_check_ok
    /\ ValidConfig(resp["ssh_read"])

\* C6: for each of the command steps, a step whose own response text
\* contains "command authorization failed" in any letter case does not set
\* its success flag even when the transport reported success, and a step
\* whose transport reported success with a text free of the phrase does:
\* only the step's own response decides.
C6_OwnResponseDecides ==
    \A s \in Steps :
        Returned(resp[s]) =>
            /\ Rejected(resp[s].text) => s \notin setBy
            /\ ValidConfig(resp[s]) => s \in setBy

\* C7: save_config_successful does not depend on the read-config response,
\* and backup_successful does not depend on the persist-configuration
\* response: an execution that differs from this one only in the answer to
\* one read-config step ends with the same save_config_successful, and one
\* that differs only in the answer to one persist-configuration step ends
\* with the same backup_successful.
C7_FlagsOrthogonal ==
    pc = "returned" =>
        \A s \in Steps :
            Tried(s) =>
                \A alt \in Responses,
                   hr \in AnswersOf("http_read"), hs \in AnswersOf("http_save"),
                   sr \in AnswersOf("ssh_read"), ss \in AnswersOf("ssh_save") :
                    LET env == Env(hr, hs, sr, ss, "ok")
                        other == Run(proc, InfoAfterProbe, [env EXCEPT ![s] = alt])
                    IN other.kind = "outcome" =>
                        IF s \in {"http_read", "ssh_read"}
                        THEN other.info.save_config_successful
                                = stockpile_info.save_config_successful
                        ELSE other.info.backup_successful
                                = stockpile_info.backup_successful

\* C8: in every returned outcome, backup_successful is true if and only if
\* a read-config response was retrieved whose text is non-empty and not
\* rejected; an empty response never yields backup_successful.
C8_BackupIffNonEmptyConfig ==
    pc = "returned" =>
        (stockpile_info.backup_successful <=>
            \E s \in {"http_read", "ssh_read"} :
                ValidConfig(resp[s]) /\ resp[s].text # EmptyText)

\* C9: a returned outcome with backup_successful true means the host's file
\* was written and holds exactly the text retrieved by the transport whose
\* used flag is set; with backup_successful false no file was written in
\* this run.
C9_FileMatchesOutcome ==
    pc = "returned" =>
        IF stockpile_info.backup_successful
        THEN written = 1 /\ file = RetrievedText /\ file \in Texts
        ELSE NotWrittenThisRun

\* A file from an earlier run was there, HTTPS did not give a config, SSH
\* did, and the file now holds the SSH text.
C9_Witness ==
    /\ pc = "returned"
    /\ Tried("http_read")
    /\ stockpile_info.ssh_used
    /\ written = 1
    /\ file = resp["ssh_read"].text
    /\ file # resp["http_read"].text

\* C10: every read-config attempt is followed by a persist-configuration
\* attempt on the same transport, whether or not the read succeeded: when
\* the procedure has ended, each transport whose read-config was attempted
\* had its persist-configuration attempted too.
C10_PersistFollowsRead ==
    Finished =>
        /\ Tried("ssh_read") => Tried("ssh_save")
        /\ Tried("http_read") => Tried("http_save")

\* C11: in every fleet run the run-completion handler is invoked exactly
\* once and never before every host has its result, and the commit is
\* attempted exactly once, after all hosts are done, whatever mix of
\* outcomes and exception values the aggregate holds (a run in which the
\* directory, the repository or the report file could not be set up aside).
C11_CommitOncePerRun ==
    /\ ThisRun.calls > 0 => \A h \in Hosts : results[h] # NoResult
    /\ ThisRun.calls <= 1
    /\ ThisRun.commit_attempts <= 1
    /\ RunEnded => ThisRun.calls = 1
    /\ (RunEnded /\ ThisRun.fail = "none") => ThisRun.commit_attempts = 1

\* C12: every per-device failure ends as a well-formed failed outcome: a
\* procedure call that has ended handed back a structured outcome, marked
\* failed exactly when backup_successful is false, never an exception value.
C12_FailureIsFailedOutcome ==
    Finished =>
        /\ result.kind = "outcome"
        /\ result.failed = ~stockpile_info.backup_successful

\* C13: on run-completion the report has exactly one row for every host
\* whose result is a structured outcome (failed backups included) and none
\* for the others, and a result that is not a structured outcome prevents
\* neither the report nor the commit, wherever it stands in the aggregate
\* (a run in which the directory, the repository or the report file could
\* not be set up aside).
C13_ReportSkipsNonOutcomes ==
    (RunEnded /\ ThisRun.fail = "none") =>
        /\ csv.exists
        /\ \A h \in Hosts :
            Cardinality(RowsOf(h)) = IF results[h].kind = "outcome" THEN 1 ELSE 0
        /\ CommittedThisRun

\* C14: the report's columns are the keys of an outcome minus device_config,
\* every row written has exactly those columns, no row is refused by the
\* writer, and every outcome of either procedure has the same key set.
C14_ReportColumns ==
    /\ csv.header \in {{}, OutcomeKeys \ {"device_config"}}
    /\ \A i \in 1..Len(csv.rows) :
        /\ DOMAIN csv.rows[i] = csv.header
        /\ "device_config" \notin DOMAIN csv.rows[i]
    /\ \A r \in 1..run : handler[r].crash # "ValueError"
    /\ \A h \in Hosts : results[h].kind = "outcome" => DOMAIN results[h].info = OutcomeKeys
    /\ \A p \in {"generic", "asa"}, h \in Hosts, hm \in BOOLEAN :
        DOMAIN StartOutcome(p, h, hm) = OutcomeKeys

\* Both hosts have a row, one of them for a backup whose configuration text
\* is held in the outcome and not in the row, and the commit is made.
C14_Witness ==
    /\ RunEnded
    /\ CommittedThisRun
    /\ Len(csv.rows) = NumHosts
    /\ \E h \in Hosts : BackedUp(h) /\ results[h].info.device_config = ConfigText
    /\ \E h \in Hosts : results[h].kind = "outcome" /\ ~BackedUp(h)

C16_SnapshotOnlyThisRunsBackups ==
    (RunEnded /\ CommittedThisRun) =>
        \A h \in Hosts : (head.files[h] # NoFile) = BackedUp(h)

\* C16 amended: the snapshot committed by the latest run holds results.csv,
\* for every host backed up in that run a file with the text retrieved in
\* that run, and for every other host the file exactly as it was when the
\* run began: absent, or what an earlier run left.
C16_SnapshotKeepsEarlierFiles ==
    (RunEnded /\ CommittedThisRun) =>
        /\ head.csv.exists
        /\ head.csv = csv
        /\ \A h \in Hosts :
            head.files[h] = IF BackedUp(h) THEN results[h].info.device_config
                            ELSE files_at_start[h]

\* The second run did not back host 1 up, and its commit still holds the
\* file the first run wrote for host 1.
C16_Witness ==
    /\ RunEnded
    /\ run = 2
    /\ CommittedThisRun
    /\ ~BackedUp(1)
    /\ head.files[1] \in FleetTexts

\* C17: two runs into the same directory (neither stopped by a directory,
\* repository or report file that could not be set up) leave exactly two
\* commits, the first run's then the second's; each host backed up in run 2
\* has a file holding run 2's text, and results.csv has run 2's rows.
C17_TwoRunsTwoCommits ==
    (RunEnded /\ run = 2 /\ handler[1].fail = "none" /\ handler[2].fail = "none") =>
        /\ commits = <<1, 2>>
        /\ \A h \in Hosts : BackedUp(h) =>
            /\ files[h] = results[h].info.device_config
            /\ head.files[h] = results[h].info.device_config
        /\ \A h \in Hosts : results[h].kind = "outcome" =>
            \E i \in 1..Len(csv.rows) : csv.rows[i] = ReportRow(results[h].info)

\* C18: the dispatcher calls the dual-transport procedure for cisco_asa and
\* the generic procedure for every other platform of its map; for a platform
\* without an entry, an absent one included, it calls neither, no probe or
\* transport attempt is made, no file is touched and the task fails with an
\* error.
C18_Dispatch ==
    \A h \in Hosts : results[h] # NoResult =>
        IF platform[h] = "cisco_asa" THEN invoked[h] = "asa"
        ELSE IF platform[h] \in KnownPlatforms THEN invoked[h] = "generic"
        ELSE /\ invoked[h] = "none"
             /\ ~trace[h].entered
             /\ results[h].kind = "exception"
             /\ files[h] = files_at_start[h]

\* One run over a host without a platform, a cisco_asa host whose procedure
\* ran, or a host of another known platform.
C18_Witness ==
    /\ platform[1] = "None"
    /\ results[1].kind = "exception"
    /\ invoked[1] = "none"
    /\ \/ platform[2] = "cisco_asa" /\ invoked[2] = "asa" /\ trace[2].entered
       \/ platform[2] = "arista_eos" /\ invoked[2] = "generic"

\* C19: a host with an unknown platform aborts only its own task: it appears
\* in the aggregate as a failed outcome, and the handler still writes the
\* report and makes the commit (a run in which the directory, the repository
\* or the report file could not be set up aside).
C19_UnknownPlatformIsolated ==
    (RunEnded /\ ThisRun.fail = "none" /\ \E h \in Hosts : UnknownPlatform(h)) =>
        /\ \A h \in Hosts : UnknownPlatform(h) =>
            /\ results[h].kind = "outcome"
            /\ ~results[h].info.backup_successful
        /\ csv.exists
        /\ CommittedThisRun

\* C20: in the dual-transport procedure the HTTP port is probed exactly when
\* HTTP management is enabled and no proxy is configured; with HTTP
\* management and a proxy, http_port_check_ok is true without a probe; with
\* HTTP management disabled, http_port_check_ok stays false and no HTTP
\* request is made; the SSH port is probed before any transport attempt or
\* file write.
C20_ProbePolicy ==
    proc = "asa" =>
        /\ ProbesDone =>
            /\ ("http" \in probed) = (host_http_mgmt /\ proxies = "None")
            /\ (host_http_mgmt /\ proxies # "None") => stockpile_info.http_port_check_ok
        /\ ~host_http_mgmt =>
            /\ ~stockpile_info.http_port_check_ok
            /\ "http" \notin probed
            /\ ~Tried("http_read") /\ ~Tried("http_save")
        /\ (attempted # <<>> \/ written > 0 \/ Finished) => "ssh" \in probed

\* Behind a proxy the HTTPS read-config went out although the HTTP port was
\* never probed.
C20_Witness ==
    /\ proc = "asa"
    /\ host_http_mgmt
    /\ proxies # "None"
    /\ probed = {"ssh"}
    /\ stockpile_info.http_port_check_ok
    /\ Tried("http_read")

\* C21: in every outcome a procedure returns, last_backup_attempt is set,
\* and last_successful_backup is set to a timestamp exactly when
\* backup_successful is true.
C21_SuccessTimestamp ==
    pc = "returned" =>
        /\ stockpile_info.last_backup_attempt \in Nat
        /\ (stockpile_info.last_successful_backup # None) = stockpile_info.backup_successful

\* C22 as stated: during a fleet run nothing in the output directory is
\* created or written before the run-completion handler runs: while the
\* hosts' procedures are running, the directory's files are as they were
\* when the run began.
C22_OnlyHandlerTouchesDirectory ==
    phase = "devices" => files = files_at_start

\* C22 amended: creating the output directory, the version-control metadata
\* and results.csv are the run-completion handler's alone, after every
\* procedure has returned; before that barrier a per-device procedure
\* touches the directory only to write its own host's config file, and only
\* if the directory already exists.
C22_DevicesWriteOnlyTheirFiles ==
    [][/\ (phase = "devices" /\ phase' = "devices" /\ run' = run) =>
            /\ dir' = dir
            /\ csv' = csv
            /\ commits' = commits
            /\ head' = head
            /\ \A h \in Hosts : files'[h] # files[h] => (dir.exists /\ results'[h] # results[h])
       /\ (dir' # dir \/ csv' # csv \/ commits' # commits \/ head' # head) =>
            /\ \A h \in Hosts : results[h] # NoResult /\ ~pending[h].running
            /\ ThisRun.calls = 0
            /\ handler'[run].calls = 1
      ]_vars

\* In the first run a procedure has written its host's file while another
\* host's procedure is still running and the handler has not been called:
\* the directory has no repository yet.
C22_Witness ==
    /\ run = 1
    /\ phase = "devices"
    /\ ThisRun.calls = 0
    /\ files[1] \in FleetTexts
    /\ pending[2].running
    /\ ~dir.git

\* C23: under any interleaving of the hosts' procedures, a procedure writes
\* at most one file per run, its own host's and no other, and changes only
\* its own result; each host gets exactly one result per run, and that
\* result is what the procedure gives for this host's answers alone,
\* whatever the other hosts' procedures are doing.
C23_ProceduresIsolated ==
    [][run' = run =>
        /\ \A h \in Hosts :
            /\ results'[h] # results[h] =>
                /\ results[h] = NoResult
                /\ \A g \in Hosts \ {h} : results'[g] = results[g] /\ files'[g] = files[g]
                /\ pending[h].running =>
                    results'[h] = Run(invoked[h], pending[h].info,
                                      [pending[h].env EXCEPT !.write = WriteAnswer(dir, @)])
            /\ files'[h] # files[h] =>
                /\ files[h] = files_at_start[h]
                /\ results[h] = NoResult
                /\ results'[h].kind = "outcome"
                /\ files'[h] = results'[h].info.device_config
        /\ phase' = "ended" => \A h \in Hosts : results'[h] # NoResult
      ]_vars

\* Host 2's procedure was called first and is still running when host 1's
\* has written host 1's file and returned; host 2's file is untouched.
C23_Witness ==
    /\ phase = "devices"
    /\ pending[2].running
    /\ BackedUp(1)
    /\ files[1] = results[1].info.device_config
    /\ files[2] = files_at_start[2]
    /\ results[2] = NoResult

\* C24: a first run through main's stockpile path over two hosts of a
\* generic platform (A answering with its configuration, B unreachable),
\* with a usable output directory, ends with a results.csv of two rows, B's
\* showing backup_successful false, no B.txt, and exactly one commit.
C24_TwoDeviceRun ==
    (/\ RunEnded
     /\ run = 1
     /\ ThisRun.fail = "none"
     /\ \A h \in Hosts : Lookup(platform[h]) = "generic") =>
        /\ Len(csv.rows) = NumHosts
        /\ \E i \in 1..Len(csv.rows) :
            csv.rows[i].ip = NumHosts /\ ~csv.rows[i].backup_successful
        /\ files[NumHosts] = NoFile
        /\ commits = <<1>>

\* C25: a run in which some or all devices failed their backup (and the
\* directory, the repository and the report file could be set up) still
\* makes the snapshot commit and exits successfully.
C25_DeviceFailuresNotFatal ==
    (RunEnded /\ ThisRun.fail = "none" /\ \E h \in Hosts : ~BackedUp(h)) =>
        /\ exit = "ok"
        /\ CommittedThisRun

\* C26: git_initialize leaves a directory that exists and holds a
\* repository; it creates the directory only when absent and initialises a
\* repository only when there is no .git, so on a directory it has already
\* set up it changes nothing, and the commits of earlier runs are all still
\* in the history.
C26_OpenIsIdempotent ==
    /\ \A d \in {NoDir, PlainDir, GitInitialize(NoDir, "none")} :
        LET d1 == GitInitialize(d, "none")
        IN /\ d1.exists /\ d1.git
           /\ ~MakesDir(d1)
           /\ ~InitsRepo(d1)
           /\ GitInitialize(d1, "none") = d1
           /\ RepoHistory(commits, d1) = commits
    /\ dir.git => dir.exists
    /\ ~dir.git => commits = <<>>
    /\ \A r \in 1..run :
        handler[r].commit_attempts = 1 => \E i \in 1..Len(commits) : commits[i] = r

\* The second run found the repository of the first, opened it, and added
\* its commit after the first run's.
C26_Witness ==
    /\ run = 2
    /\ RunEnded
    /\ dir.git
    /\ handler[1].commit_attempts = 1
    /\ commits = <<1, 2>>

\* C27: when the credential file was read and decoded, a payload of exactly
\* two entries gives (user, password, enable = password), one of exactly
\* three gives (user, password, enable), each value being the text after
\* the first ':' of its entry, and any other number of entries, none
\* included, raises OSError.
C27_FilePayloadParsed ==
    (CallEnded /\ content.kind = "b64") =>
        LET creds == Split(content.payload)
        IN IF Len(creds) = 2
           THEN gathered = Gathered("ok", ValueOf(creds[1]), ValueOf(creds[2]),
                                    ValueOf(creds[2]))
           ELSE IF Len(creds) = 3
           THEN gathered = Gathered("ok", ValueOf(creds[1]), ValueOf(creds[2]),
                                    ValueOf(creds[3]))
           ELSE gathered.kind = "OSError"

\* C28 as stated: whenever the credential file is missing, not owned by the
\* user or has a group or other permission bit set, gather_credentials
\* raises OSError and has not read the file.
C28_BadFileRaisesUnread ==
    (CallEnded /\ CredentialFile # "None" /\ BadFile) =>
        /\ gathered.kind = "OSError"
        /\ ~FileRead

\* C28 amended: when no prompt is requested and a credential file is named,
\* a file that is missing, not owned by the user or has a group or other
\* permission bit set makes gather_credentials raise OSError without reading
\* it; the file is never read before all three checks have passed.  With
\* credential_prompt the file is not looked at and nothing is raised.
C28_BadFileRaisesUnlessPrompt ==
    /\ (CallEnded /\ CredentialFile # "None" /\ BadFile /\ ~args.credential_prompt) =>
        /\ gathered.kind = "OSError"
        /\ ~FileRead
    /\ FileRead => (~BadFile /\ ~args.credential_prompt /\ CredentialFile # "None")
    /\ (CallEnded /\ args.credential_prompt) => (gathered.kind = "ok" /\ ~FileRead)

\* The file is the user's own and only "other" may read it besides: the
\* call ended with OSError and the contents were not read.
C28_Witness ==
    /\ CallEnded
    /\ ~args.credential_prompt
    /\ credential_path.exists
    /\ credential_path.owned
    /\ credential_path.mode = 33156
    /\ gathered.kind = "OSError"
    /\ ~FileRead

\* C29: called with no prompt and no credential file, gather_credentials
\* returns user, password and enable of the environment, the password in
\* place of an unset STOCKPILER_ENABLE, and raises OSError when neither
\* user nor password is in the environment.
C29_EnvironmentCredentials ==
    (CallEnded /\ ~args.credential_prompt /\ CredentialFile = "None") =>
        IF environ.STOCKPILER_USER = None /\ environ.STOCKPILER_PW = None
        THEN gathered.kind = "OSError"
        ELSE gathered = Gathered("ok", environ.STOCKPILER_USER, environ.STOCKPILER_PW,
                                 IF environ.STOCKPILER_ENABLE = None
                                 THEN environ.STOCKPILER_PW
                                 ELSE environ.STOCKPILER_ENABLE)

\* C30: run from the command line with none of --credential_prompt,
\* --credential_from_inventory and --credential_file, and with
\* STOCKPILER_USER and STOCKPILER_PW in the environment, the run's
\* credentials are those two.
C30_CommandLineDefaultUsesEnvironment ==
    (/\ cpc = "done"
     /\ ~args.credential_prompt
     /\ ~args.credential_from_inventory
     /\ args.credential_file = "absent"
     /\ environ.STOCKPILER_USER # None
     /\ environ.STOCKPILER_PW # None) =>
        /\ gathered.kind = "ok"
        /\ defaults.username = environ.STOCKPILER_USER
        /\ defaults.password = environ.STOCKPILER_PW

\* C31: in every outcome returned by either procedure, backup_successful is
\* true if and only if exactly one of http_used and ssh_used is true;
\* http_used implies http_management and http_port_check_ok; ssh_used implies
\* ssh_port_check_ok; and no read-config is ever attempted on a transport
\* whose port check is false.
C31_OutcomeFlagsConsistent ==
    /\ pc = "returned" =>
        /\ stockpile_info.backup_successful <=>
              (stockpile_info.http_used # stockpile_info.ssh_used)
        /\ stockpile_info.http_used =>
              stockpile_info.http_management /\ stockpile_info.http_port_check_ok
        /\ stockpile_info.ssh_used => stockpile_info.ssh_port_check_ok
    /\ Tried("http_read") => stockpile_info.http_port_check_ok
    /\ Tried("ssh_read") => stockpile_info.ssh_port_check_ok

\* Behind a proxy the HTTP port was taken as open without a probe, the SSH
\* port was closed, and HTTPS gave the backup of the returned outcome.
C31_Witness ==
    /\ proc = "asa"
    /\ pc = "returned"
    /\ proxies = "socks"
    /\ stockpile_info.backup_successful
    /\ stockpile_info.http_used
    /\ ~stockpile_info.ssh_port_check_ok
    /\ ~Tried("ssh_read")

C33_DirectoryBeforeDeviceWrites ==
    \A h \in Hosts : trace[h].write_failed => dir.exists

\* C34: for every platform of the dispatch map, the procedure the dispatcher
\* calls accepts every keyword argument of the main stockpile run (proxies
\* and stockpile_directory), so a host of a known platform never ends on an
\* argument mismatch: once it has a result, its procedure's body was entered.
C34_DispatchArgumentsAccepted ==
    \A h \in Hosts :
        /\ invoked[h] # "none" => Accepts(invoked[h], MainKwargs)
        /\ (platform[h] \in DOMAIN StockpileMap /\ results[h] # NoResult) => trace[h].entered

\* C35: each outcome's last_backup_attempt is the time at which that device's
\* procedure created the outcome: it is not earlier than the run's recorded
\* start time, and outcomes created at different times carry different
\* timestamps.
C35_AttemptTimestampFresh ==
    \A h \in Hosts : ReturnedOutcome(h) =>
        /\ results[h].info.last_backup_attempt = trace[h].created
        /\ results[h].info.last_backup_attempt >= task_start_time
        /\ \A g \in Hosts :
              (ReturnedOutcome(g) /\ trace[g].created # trace[h].created) =>
                  results[g].info.last_backup_attempt # results[h].info.last_backup_attempt

\* C36: at every return point of the generic and the dual-transport
\* procedure, the early return for an unreachable device and the normal
\* return, the result hands back the outcome and its failed flag is the
\* negation of the outcome's backup_successful, whatever
\* save_config_successful is.
C36_FailedIsNotBackedUp ==
    pc = "returned" =>
        /\ result.kind = "outcome"
        /\ result.failed = ~stockpile_info.backup_successful

\* A normal return with a backup but without the device-side save: the
\* result is not failed.
C36_Witness ==
    /\ pc = "returned"
    /\ attempted # <<>>
    /\ stockpile_info.backup_successful
    /\ ~stockpile_info.save_config_successful
    /\ ~result.failed

====
